---- MODULE Spec2Model ----
(***************************************************************************)
(* Layoff tracker ingestion pipeline: the record model and identity key    *)
(* (src/models/layoff.py), the store (src/storage/database.py), the        *)
(* adapters (src/scrapers), the orchestrator (src/scheduler.py) and the    *)
(* one-shot runner (scripts/run_all_scrapers.py).                          *)
(*                                                                         *)
(* Strings are sequences of one-character strings.  Dates are day numbers; *)
(* datetime.now() is observed at day granularity.  Python None in an       *)
(* Optional[int] field is the value None.                                  *)
(***************************************************************************)
EXTENDS Integers, Sequences, FiniteSets, TLC

\* ------------------------------------------------------------------ bounds
\* last day the clock reaches
MaxDay == 3
\* unexpected persistence errors the environment injects into one run
MaxFaults == 1

\* last second the clock of the fetcher reaches
MaxClock == 6

\* longest string handed to the record model
MaxLen == 3

\* longest table a source serves to an adapter called on its own
MaxRows == 3

\* schedule_jobs calls made on one scheduler
MaxScheduleCalls == 2

\* longest text handed to the extraction of an employee count
MaxText == 4

\* first day of the clock: day 1 is in the past, day 3 in the future
FirstDay == 2

None == -1
NoDate == 0

\* ----------------------------------------------------------------- strings
Uppers == <<"A", "B", "C", "F">>
Lowers == <<"a", "b", "c", "f">>

IsUpper(c) == \E i \in 1..Len(Uppers) : Uppers[i] = c
IsLower(c) == \E i \in 1..Len(Lowers) : Lowers[i] = c
IsCased(c) == IsUpper(c) \/ IsLower(c)

\* str.lower() on one character
LowerChar(c) ==
    IF IsUpper(c) THEN Lowers[CHOOSE i \in 1..Len(Uppers) : Uppers[i] = c] ELSE c

\* str.upper() on one character
UpperChar(c) ==
    IF IsLower(c) THEN Uppers[CHOOSE i \in 1..Len(Lowers) : Lowers[i] = c] ELSE c

\* str.lower()
Lower(s) == [i \in 1..Len(s) |-> LowerChar(s[i])]

\* str.title(): a cased character is upper-cased after an uncased one (or at
\* the start) and lower-cased after a cased one
Title(s) ==
    [i \in 1..Len(s) |->
        IF i = 1 \/ ~IsCased(s[i - 1]) THEN UpperChar(s[i]) ELSE LowerChar(s[i])]

RECURSIVE LStrip(_)
LStrip(s) == IF s # <<>> /\ Head(s) = " " THEN LStrip(Tail(s)) ELSE s

RECURSIVE RStrip(_)
RStrip(s) ==
    IF s # <<>> /\ s[Len(s)] = " " THEN RStrip(SubSeq(s, 1, Len(s) - 1)) ELSE s

\* str.strip()
Strip(s) == LStrip(RStrip(s))

\* ------------------------------------------------------------ record model
\* LayoffCreate.normalize_company_name
normalize_company_name(v) == Title(Strip(v))

\* the validator lets every date pass
layoff_date_not_future_off(v, now) == TRUE

\* LayoffCreate.layoff_date_not_future: TRUE when the date passes
layoff_date_not_future(v, now) == ~(v > now)

Invalid == [valid |-> FALSE]

\* LayoffCreate(...): field constraints (min_length=1, ge=0) run before the
\* after-validators; the result carries the normalised company name
LayoffCreate(company_name, layoff_date, employees_affected, source, now) ==
    IF /\ Len(company_name) >= 1
       /\ Len(source) >= 1
       /\ (employees_affected = None \/ employees_affected >= 0)
       /\ layoff_date_not_future(layoff_date, now)
    THEN [valid |-> TRUE,
          company_name |-> normalize_company_name(company_name),
          layoff_date |-> layoff_date,
          employees_affected |-> employees_affected,
          source |-> source]
    ELSE Invalid

\* Layoff.generate_unique_id: md5 of "<name.lower()>_<date>_<source.lower()>";
\* the digest is kept as the triple it is computed from
generate_unique_id(company_name, layoff_date, source) ==
    <<Lower(company_name), layoff_date, Lower(source)>>

\* ------------------------------------------------------------------- store
\* session.query(LayoffModel).filter(unique_id == uid).first()
existing(rows, uid) == \E r \in rows : r.unique_id = uid

\* the column is declared without unique=True
unique_violation_off(rows, uid) == FALSE

\* UNIQUE constraint of LayoffModel.unique_id, evaluated by the INSERT
unique_violation(rows, uid) == \E r \in rows : r.unique_id = uid

\* LayoffModel(...) as built by add_layoff (the surrogate key id is left out)
LayoffModel(rows, lc, uid, now) ==
    [company_name |-> lc.company_name,
     layoff_date |-> lc.layoff_date,
     employees_affected |-> lc.employees_affected,
     source |-> lc.source,
     unique_id |-> uid,
     scraped_at |-> now]

\* a duplicate is answered with None instead of a Layoff
add_layoff_returns_existing(rows, lc, now, fault) ==
    LET uid == generate_unique_id(lc.company_name, lc.layoff_date, lc.source)
    IN  IF fault THEN [rows |-> rows, ret |-> "raised"]
        ELSE IF existing(rows, uid) THEN [rows |-> rows, ret |-> "created"]
        ELSE [rows |-> rows \cup {LayoffModel(rows, lc, uid, now)},
              ret |-> "created"]

\* a duplicate overwrites the stored row (merge instead of skip)
add_layoff_overwrites(rows, lc, now, fault) ==
    LET uid == generate_unique_id(lc.company_name, lc.layoff_date, lc.source)
        kept == {r \in rows : r.unique_id # uid}
    IN  IF fault THEN [rows |-> rows, ret |-> "raised"]
        ELSE IF existing(rows, uid)
             THEN [rows |-> kept \cup {LayoffModel(kept, lc, uid, now)},
                   ret |-> "None"]
        ELSE [rows |-> rows \cup {LayoffModel(rows, lc, uid, now)},
              ret |-> "created"]

\* DatabaseManager.add_layoff run alone, from opening the session to its
\* commit.  fault: the database raises an unexpected error (rolled back and
\* re-raised).  The INSERT is subject to the UNIQUE constraint on unique_id,
\* whose IntegrityError is answered with None.
add_layoff(rows, lc, now, fault) ==
    LET uid == generate_unique_id(lc.company_name, lc.layoff_date, lc.source)
    IN  IF fault THEN [rows |-> rows, ret |-> "raised"]
        ELSE IF existing(rows, uid) THEN [rows |-> rows, ret |-> "None"]
        ELSE IF unique_violation(rows, uid)
             THEN [rows |-> rows, ret |-> "None"]
        ELSE [rows |-> rows \cup {LayoffModel(rows, lc, uid, now)},
              ret |-> "created"]

\* add_layoffs_batch: the rows the loop hands to session.add.  The session
\* does not autoflush, so the duplicate query sees committed rows only.
RECURSIVE batch_pending(_, _, _)
batch_pending(rows, batch, now) ==
    IF batch = <<>> THEN <<>>
    ELSE LET lc == Head(batch)
             uid == generate_unique_id(lc.company_name, lc.layoff_date, lc.source)
         IN  IF existing(rows, uid)
             THEN batch_pending(rows, Tail(batch), now)
             ELSE <<LayoffModel(rows, lc, uid, now)>>
                  \o batch_pending(rows, Tail(batch), now)

\* DatabaseManager.add_layoffs_batch run alone: one session, one commit.  An
\* IntegrityError of the flush at commit (two pending rows with one
\* unique_id) or an unexpected error rolls the whole batch back and is raised.
add_layoffs_batch(rows, batch, now, fault) ==
    LET pend == batch_pending(rows, batch, now)
        clash == \E i, j \in 1..Len(pend) :
                    i < j /\ pend[i].unique_id = pend[j].unique_id
    IN  IF fault \/ clash
        THEN [rows |-> rows, raised |-> TRUE, count |-> 0]
        ELSE [rows |-> rows \cup {pend[i] : i \in 1..Len(pend)},
              raised |-> FALSE, count |-> Len(pend)]

\* ---------------------------------------------------------------- adapters
\* source_name of each adapter ("layoff_tracker_comprehensive",
\* "layoffs.fyi", "layoffs.fyi (Federal)", "layoffstracker.com",
\* "peerlist.io", "officepulse.live"), abbreviated
SRC_COMPREHENSIVE == <<"c">>
SRC_FYI == <<"f">>
SRC_FYI_FEDERAL == <<"f", "(", "F", ")">>
SRC_TRACKER == <<"t">>
SRC_PEERLIST == <<"p">>
SRC_OFFICEPULSE == <<"o">>

Row(company, date, affected) ==
    [company |-> company, date |-> date, affected |-> affected]

\* the hard-coded list of ComprehensiveLayoffScraper: dated in the past, no
\* seen-set, and it holds entries repeated with the same company and date
comprehensive_layoffs ==
    <<Row(<<"A", "c">>, 1, 5), Row(<<"B", "b">>, 1, 7), Row(<<"A", "c">>, 1, 5)>>

\* ComprehensiveLayoffScraper.fetch_layoffs
RECURSIVE comprehensive_fetch(_, _)
comprehensive_fetch(items, now) ==
    IF items = <<>> THEN <<>>
    ELSE LET item == Head(items)
             layoff == LayoffCreate(item.company, item.date, item.affected,
                                    SRC_COMPREHENSIVE, now)
         IN  IF layoff.valid
             THEN <<layoff>> \o comprehensive_fetch(Tail(items), now)
             ELSE comprehensive_fetch(Tail(items), now)

\* the row loop of LayoffsFyiScraper._scrape_airtable and of
\* LayoffsTrackerScraper.fetch_layoffs: the name enters seen before the
\* record is built, a row whose LayoffCreate raises is skipped
RECURSIVE scrape_airtable(_, _, _, _)
scrape_airtable(raw_rows, seen, source_name, now) ==
    IF raw_rows = <<>> THEN <<>>
    ELSE LET row == Head(raw_rows)
             company == row.company
             layoff == LayoffCreate(company,
                                    IF row.date # NoDate THEN row.date ELSE now,
                                    row.affected, source_name, now)
         IN  IF company = <<>> \/ company \in seen
             THEN scrape_airtable(Tail(raw_rows), seen, source_name, now)
             ELSE IF layoff.valid
             THEN <<layoff>> \o scrape_airtable(Tail(raw_rows),
                                    seen \cup {company}, source_name, now)
             ELSE scrape_airtable(Tail(raw_rows), seen \cup {company},
                                  source_name, now)

\* PeerlistScraper._extract_table_data: the page script keeps trimmed names
\* longer than one character; the row loop has no try of its own, so a
\* LayoffCreate that raises ends the table and the rows so far are returned
RECURSIVE extract_table_rows(_, _, _)
extract_table_rows(table_data, seen, now) ==
    IF table_data = <<>> THEN <<>>
    ELSE LET row == Head(table_data)
             company == row.company
             layoff == LayoffCreate(company,
                                    IF row.date # NoDate THEN row.date ELSE now,
                                    row.affected, SRC_PEERLIST, now)
         IN  IF company = <<>> \/ company \in seen
             THEN extract_table_rows(Tail(table_data), seen, now)
             ELSE IF layoff.valid
             THEN <<layoff>> \o extract_table_rows(Tail(table_data),
                                    seen \cup {company}, now)
             ELSE <<>>

page_rows(rows) ==
    LET trimmed == [i \in 1..Len(rows) |->
                       [rows[i] EXCEPT !.company = Strip(rows[i].company)]]
    IN  SelectSeq(trimmed, LAMBDA r : Len(r.company) > 1)

extract_table_data(rows, now) == extract_table_rows(page_rows(rows), {}, now)

\* the record loop of OfficePulseScraper.fetch_layoffs: the name is stripped
\* before the seen test
RECURSIVE officepulse_rows(_, _, _)
officepulse_rows(data, seen, now) ==
    IF data = <<>> THEN <<>>
    ELSE LET record == Head(data)
             company == Strip(record.company)
             layoff == LayoffCreate(company,
                                    IF record.date # NoDate THEN record.date ELSE now,
                                    record.affected, SRC_OFFICEPULSE, now)
         IN  IF company = <<>> \/ company \in seen
             THEN officepulse_rows(Tail(data), seen, now)
             ELSE IF layoff.valid
             THEN <<layoff>> \o officepulse_rows(Tail(data),
                                    seen \cup {company}, now)
             ELSE officepulse_rows(Tail(data), seen \cup {company}, now)

\* fetch_layoffs of the adapter registered under name, on what the upstream
\* serves: a pair of tables (tech and federal views for layoffs.fyi, the two
\* year pages for peerlist; the other adapters read the first only)
fetch_layoffs(name, served, now) ==
    CASE name = "comprehensive" -> comprehensive_fetch(comprehensive_layoffs, now)
      [] name = "layoffs_fyi" ->
            scrape_airtable(served[1], {}, SRC_FYI, now)
            \o scrape_airtable(served[2], {}, SRC_FYI_FEDERAL, now)
      [] name = "layoffstracker" -> scrape_airtable(served[1], {}, SRC_TRACKER, now)
      [] name = "peerlist" ->
            extract_table_data(served[1], now) \o extract_table_data(served[2], now)
      [] name = "officepulse" -> officepulse_rows(served[1], {}, now)

\* what an upstream can serve
RowAc1 == Row(<<"A", "c">>, 1, 5)
RowAC1 == Row(<<"A", "C">>, 1, 6)
RowBbNoDate == Row(<<"B", "b">>, NoDate, 7)
RowAc3 == Row(<<"A", "c">>, 3, 5)

Tables == {<<>>, <<RowAc1, RowBbNoDate>>, <<RowAc1, RowAC1>>, <<RowAc3, RowAc1>>}

Upstreams(name) ==
    IF name \in {"layoffs_fyi", "peerlist"}
    THEN {<<t, <<>>>> : t \in Tables} \cup {<<<<RowAc1, RowBbNoDate>>, <<RowAc1>>>>}
    ELSE {<<t, <<>>>> : t \in Tables}

\* how fetch_layoffs can end: the registered adapters report their failures
\* as ScrapeError and the hard-coded adapter has no failing path; "Exception"
\* is any other exception leaving an adapter, which scrape_and_store handles
\* in a branch of its own
FetchOutcomes(name) ==
    IF name = "comprehensive" THEN {"ok"} ELSE {"ok", "ScrapeError", "Exception"}

\* ------------------------------------------------------------------- state
VARIABLES
    today,        \* date.today() / datetime.now()
    store,        \* committed rows of table layoffs
    faults,       \* unexpected persistence errors injected into this run
    enabled,      \* settings.*_ENABLED
    upstream,     \* what each source serves
    caller,       \* "none", "run_scraper" (job, API) or "run_once" (runner)
    pending,      \* run_all_scrapers: names the loop has not reached yet
    results,      \* run_all_scrapers: results, in insertion order
    started,      \* adapters whose scrape_and_store this run_all entered
    cur,          \* adapter inside run_scraper
    phase,        \* "idle", "fetching", "storing", "returning"
    fetch_outcome,\* scrape_and_store: how fetch_layoffs ended in this run
    layoffs,      \* scrape_and_store: list returned by fetch_layoffs
    idx,          \* scrape_and_store: position of the store loop
    added_count,  \* scrape_and_store: added_count
    result,       \* scrape_and_store: result
    attempts,     \* add_layoff calls of this run: record and outcome
    rows_before,  \* rows the store held when this run began
    ret,          \* what the last run_scraper call returned
    exit_status,  \* sys.exit status of the last one-shot run
    calls,        \* the last two direct add_layoff calls
    batch,        \* the last add_layoffs_batch call
    prev,         \* the last finished scrape_and_store
    wpc,          \* concurrent add_layoff: position of each caller
    wrec,         \* concurrent add_layoff: layoff_create of each caller
    wret,         \* concurrent add_layoff: what each caller got
    wchecked,     \* concurrent add_layoff: the duplicate query found no row
    held,         \* concurrent add_layoff: row flushed, not yet committed
    clock,        \* time.time(), in seconds since base.py was imported
    max_retries,  \* settings.MAX_RETRIES
    last_reset,   \* @limits: start of the current period
    num_calls,    \* @limits: calls counted in the current period
    fpc,          \* _fetch_page: position of each caller
    fattempt,     \* _fetch_page: attempt of each caller
    fwake,        \* _fetch_page: end of the time.sleep each caller is in
    flog,         \* _fetch_page: the requests of each caller's current call
    fret,         \* _fetch_page: how each caller's last call ended
    last_start,   \* start of the last outbound request
    gap,          \* time between the last two outbound requests
    args,         \* inputs handed to the record model
    keys,         \* generate_unique_id of the inputs
    built,        \* LayoffCreate of the inputs
    fetched,      \* the last fetch_layoffs call made on its own
    http,         \* the outbound requests of the last fetch_layoffs call
    sched_state,  \* BlockingScheduler.state
    pending_jobs, \* BlockingScheduler._pending_jobs
    jobstore,     \* jobs of the default job store
    triggered,    \* run_scraper calls submitted by the last interval tick
    instances,    \* executor: running instances of each job id
    skipped,      \* job ids the last interval tick did not submit
    schedule_calls, \* schedule_jobs calls made so far
    count_str,    \* text an employee count is extracted from
    employees,    \* what each extraction made of it
    orders,       \* two orders in which one set of records is applied
    applied,      \* records of each order handed to add_layoff so far
    copies        \* the store each order is applied to

vars == <<today, store, faults, enabled, upstream, caller, pending, results,
          started,
          cur, phase, fetch_outcome, layoffs, idx, added_count, result, attempts,
          rows_before, ret, exit_status, calls, batch, prev, wpc, wrec, wret, wchecked, held,
          clock, max_retries, last_reset, num_calls, fpc, fattempt, fwake, flog,
          fret, last_start, gap, args, keys, built, fetched, http,
          sched_state, pending_jobs, jobstore, triggered, instances, skipped,
          schedule_calls, count_str, employees, orders, applied, copies>>

runVars == <<cur, phase, faults, fetch_outcome, layoffs, idx, added_count, result,
            attempts, rows_before>>
envVars == <<enabled, upstream>>
allVars == <<pending, results, started, exit_status>>
raceVars == <<wpc, wrec, wret, wchecked, held>>
netVars == <<clock, max_retries, last_reset, num_calls, fpc, fattempt, fwake,
             flog, fret, last_start, gap>>
modelVars == <<args, keys, built>>
jobVars == <<sched_state, pending_jobs, jobstore, triggered, instances,
            skipped, schedule_calls>>
textVars == <<count_str, employees>>
upsertVars == <<orders, applied, copies>>
extraVars == <<netVars, modelVars, fetched, http, jobVars, textVars, upsertVars>>

Flags == {"layoffs_fyi", "layoffstracker", "peerlist", "officepulse"}
Workers == {1, 2}
NoRow == [unique_id |-> <<>>]
NoRec == Invalid
NoUpstream == <<<<>>, <<>>>>

\* LayoffScheduler._initialize_scrapers: the registry, in insertion order
initialize_scrapers(en) ==
    <<"comprehensive">>
    \o (IF en["layoffs_fyi"] THEN <<"layoffs_fyi">> ELSE <<>>)
    \o (IF en["layoffstracker"] THEN <<"layoffstracker">> ELSE <<>>)
    \o (IF en["peerlist"] THEN <<"peerlist">> ELSE <<>>)
    \o (IF en["officepulse"] THEN <<"officepulse">> ELSE <<>>)

scrapers == initialize_scrapers(enabled)
Registered == {scrapers[i] : i \in 1..Len(scrapers)}

\* names a caller may pass to run_scraper
Names == {"comprehensive", "layoffs_fyi", "layoffstracker", "peerlist",
          "officepulse", "bogus"}

\* scrape_and_store: result as initialised
InitResult ==
    [success |-> FALSE, records_found |-> 0, records_added |-> 0,
     errors |-> <<>>, error |-> <<>>]

\* run_scraper: result for a name missing from the registry (it has the keys
\* success and error only)
NotFoundResult(name) ==
    [success |-> FALSE, records_found |-> None, records_added |-> None,
     errors |-> <<>>, error |-> <<"not found", name>>]

\* run_scraper left by an exception instead of a return
Propagated ==
    [success |-> FALSE, records_found |-> None, records_added |-> None,
     errors |-> <<>>, error |-> <<"propagated">>]

NoResult == [success |-> FALSE, records_found |-> None, records_added |-> None,
             errors |-> <<>>, error |-> <<"no call">>]

NoBatch == [recs |-> <<>>, raised |-> FALSE, count |-> 0, fault |-> FALSE,
            before |-> {}]
NoPrev == [name |-> "", day |-> 0, records_found |-> None]

FaultChoices == IF faults < MaxFaults THEN {FALSE, TRUE} ELSE {FALSE}

\* a deployment: the sources switched on and what each of them serves
Only(on) == [f \in Flags |-> f \in on]
Serve(up) == [f \in Flags |-> IF f \in DOMAIN up THEN up[f] ELSE NoUpstream]

Worlds ==
    {[enabled |-> Only({}), upstream |-> Serve(<<>>)]}
    \cup UNION {{[enabled |-> Only({f}), upstream |-> Serve(f :> u)] :
                    u \in Upstreams(f)} : f \in Flags}
    \cup {[enabled |-> Only({"layoffs_fyi", "officepulse"}),
           upstream |-> Serve("layoffs_fyi" :> <<<<RowAc1>>, <<>>>>
                              @@ "officepulse" :> <<<<RowBbNoDate>>, <<>>>>)]}

InitCore(world) ==
    /\ today = FirstDay
    /\ store = {}
    /\ faults = 0
    /\ enabled = world.enabled
    /\ upstream = world.upstream
    /\ caller = "none"
    /\ pending = <<>>
    /\ results = <<>>
    /\ started = <<>>
    /\ cur = ""
    /\ phase = "idle"
    /\ fetch_outcome = "none"
    /\ layoffs = <<>>
    /\ idx = 1
    /\ added_count = 0
    /\ result = InitResult
    /\ attempts = <<>>
    /\ rows_before = {}
    /\ ret = NoResult
    /\ exit_status = None
    /\ calls = <<>>
    /\ batch = NoBatch
    /\ prev = NoPrev
    /\ wpc = [w \in Workers |-> "idle"]
    /\ wrec = [w \in Workers |-> NoRec]
    /\ wret = [w \in Workers |-> "none"]
    /\ wchecked = [w \in Workers |-> FALSE]
    /\ held = [w \in Workers |-> NoRow]

\* settings.MAX_RETRIES and settings.REQUEST_DELAY_SECONDS (defaults), and
\* retry_delay of _fetch_page
MAX_RETRIES == 3
REQUEST_DELAY_SECONDS == 2
retry_delay == 2

\* threads that call _fetch_page (the scheduler runs its jobs on a pool)
Fetchers == {1, 2}

\* the limiter of @limits is built when base.py is imported: its period
\* starts at that time and it has counted no call; no request was made yet
InitNet(mr) ==
    /\ clock = 0
    /\ max_retries = mr
    /\ last_reset = 0
    /\ num_calls = 0
    /\ fpc = [t \in Fetchers |-> "idle"]
    /\ fattempt = [t \in Fetchers |-> 0]
    /\ fwake = [t \in Fetchers |-> 0]
    /\ flog = [t \in Fetchers |-> <<>>]
    /\ fret = [t \in Fetchers |-> <<"none">>]
    /\ last_start = None
    /\ gap = None

NoArgs == [name1 |-> <<>>, name2 |-> <<>>, date |-> NoDate,
           source1 |-> <<>>, source2 |-> <<>>]
NoFetch == [name |-> "", day |-> 0, served |-> NoUpstream, out |-> <<>>]
\* two copies of one store, and the records to apply to each
InitUpsert(first, second, rows) ==
    /\ orders = <<first, second>>
    /\ applied = <<0, 0>>
    /\ copies = <<rows, rows>>

NoHttp == [name |-> "", requests |-> <<>>, raised |-> FALSE]

\* no extraction was made
NotRun == -2

InitText(s) ==
    /\ count_str = s
    /\ employees = [base |-> NotRun, peerlist |-> NotRun, officepulse |-> NotRun]

InitModel(a) ==
    /\ args = a
    /\ keys = <<>>
    /\ built = <<>>

\* BlockingScheduler() as built by LayoffScheduler.__init__
InitJobs ==
    /\ sched_state = "stopped"
    /\ pending_jobs = <<>>
    /\ jobstore = <<>>
    /\ triggered = <<>>
    /\ instances = [f \in Flags |-> 0]
    /\ skipped = <<>>
    /\ schedule_calls = 0

InitWith(world) ==
    /\ InitCore(world)
    /\ InitNet(MAX_RETRIES)
    /\ InitModel(NoArgs)
    /\ fetched = NoFetch
    /\ http = NoHttp
    /\ InitText(<<>>)
    /\ InitUpsert(<<>>, <<>>, {})
    /\ InitJobs

Init == \E world \in Worlds : InitWith(world)

\* ------------------------------------------------------------------- clock
NextDay ==
    /\ today < MaxDay
    /\ today' = today + 1
    /\ UNCHANGED <<store, envVars, caller, runVars, allVars, ret, calls, batch, prev,
                   raceVars, extraVars>>

\* ------------------------------------------------- direct add_layoff calls
\* records a script hands to add_layoff (scripts/test_pipeline.py,
\* scripts/add_real_data.py): the second has the key of the first and other
\* field values
InputAc == [company |-> <<"A", "c">>, date |-> 1, affected |-> 5, source |-> SRC_FYI]
InputAC == [company |-> <<"A", "C">>, date |-> 1, affected |-> 9, source |-> SRC_FYI]
InputBb == [company |-> <<"B", "b">>, date |-> 2, affected |-> 7, source |-> SRC_FYI]

DirectInputs == {InputAc, InputAC, InputBb}

\* lists a script hands to add_layoffs_batch: the second holds one key twice
BatchInputs ==
    {<<InputBb>>, <<InputAc, InputAC>>, <<InputAc, InputBb>>, <<InputBb, InputAC>>}

\* the records kept of earlier operations describe the latest one only
ForgetRuns ==
    /\ ret' = NoResult
    /\ results' = <<>>
    /\ started' = <<>>
    /\ exit_status' = None
    /\ prev' = NoPrev

ForgetCalls ==
    /\ calls' = <<>>
    /\ batch' = NoBatch

Last2(s) == IF Len(s) > 2 THEN SubSeq(s, Len(s) - 1, Len(s)) ELSE s

AddLayoffCall ==
    /\ caller = "none"
    /\ \E inp \in DirectInputs, fault \in BOOLEAN :
        LET lc == LayoffCreate(inp.company, inp.date, inp.affected, inp.source, today)
            r == add_layoff(store, lc, today, fault)
        IN  /\ lc.valid
            /\ store' = r.rows
            /\ calls' = Last2(Append(calls,
                            [rec |-> lc, fault |-> fault, ret |-> r.ret]))
    /\ batch' = NoBatch
    /\ ForgetRuns
    /\ UNCHANGED <<today, envVars, caller, runVars, pending, raceVars, extraVars>>

\* a script hands a list of records to add_layoffs_batch
AddLayoffsBatchCall ==
    /\ caller = "none"
    /\ \E inputs \in BatchInputs, fault \in BOOLEAN :
        LET recs == [i \in 1..Len(inputs) |->
                        LayoffCreate(inputs[i].company, inputs[i].date,
                                     inputs[i].affected, inputs[i].source, today)]
            r == add_layoffs_batch(store, recs, today, fault)
        IN  /\ \A i \in 1..Len(recs) : recs[i].valid
            /\ store' = r.rows
            /\ batch' = [recs |-> recs, raised |-> r.raised, count |-> r.count,
                         fault |-> fault, before |-> store]
    /\ calls' = <<>>
    /\ ForgetRuns
    /\ UNCHANGED <<today, envVars, caller, runVars, pending, raceVars, extraVars>>

\* ------------------------------------------------------------ orchestrator
\* run_scraper(name) for a registered name: scrape_and_store is entered
BeginScrape(name) ==
    /\ cur' = name
    /\ phase' = "fetching"
    /\ faults' = 0
    /\ fetch_outcome' = "none"
    /\ layoffs' = <<>>
    /\ idx' = 1
    /\ added_count' = 0
    /\ result' = InitResult
    /\ attempts' = <<>>
    /\ rows_before' = store

\* the registry lookup is skipped
not_in_scrapers_never(name) == FALSE

\* `scraper_name not in self.scrapers`
not_in_scrapers(name) == name \notin Registered

\* results[scraper_name] = ...: a dict keeps the position of a key it has
Put(rs, name, res) ==
    IF \E i \in 1..Len(rs) : rs[i].name = name
    THEN [i \in 1..Len(rs) |->
             IF rs[i].name = name THEN [name |-> name, result |-> res] ELSE rs[i]]
    ELSE Append(rs, [name |-> name, result |-> res])

\* run_all_scrapers stops at the first adapter that failed
run_all_stops_on_failure(names, res) ==
    IF res.success THEN Tail(names) ELSE <<>>

\* `for scraper_name in self.scrapers`: the names left after the turn that
\* produced res
run_all_rest(names, res) == Tail(names)

\* run_scraper called by a scheduled job or by the API
RunScraperCall ==
    /\ caller = "none"
    /\ \E name \in Names :
        IF not_in_scrapers(name)
        THEN /\ ret' = NotFoundResult(name)
             /\ UNCHANGED <<caller, runVars>>
        ELSE IF name \notin Registered
        THEN \* self.scrapers[scraper_name] raises KeyError outside the try
             /\ ret' = Propagated
             /\ UNCHANGED <<caller, runVars>>
        ELSE /\ caller' = "run_scraper"
             /\ BeginScrape(name)
             /\ ret' = NoResult
    /\ results' = <<>>
    /\ started' = <<>>
    /\ exit_status' = None
    /\ ForgetCalls
    /\ UNCHANGED <<today, store, envVars, pending, prev, raceVars, extraVars>>

\* scripts/run_all_scrapers.py main -> run_once -> run_all_scrapers
RunOnceCall ==
    /\ caller = "none"
    /\ caller' = "run_once"
    /\ pending' = scrapers
    /\ results' = <<>>
    /\ started' = <<>>
    /\ exit_status' = None
    /\ ret' = NoResult
    /\ ForgetCalls
    /\ UNCHANGED <<today, store, envVars, runVars, prev, raceVars, extraVars>>

\* run_all_scrapers: one turn of `for scraper_name in self.scrapers`
RunAllNext ==
    /\ caller = "run_once"
    /\ phase = "idle"
    /\ pending # <<>>
    /\ LET name == Head(pending)
       IN  IF not_in_scrapers(name)
           THEN /\ results' = Put(results, name, NotFoundResult(name))
                /\ pending' = run_all_rest(pending, NotFoundResult(name))
                /\ UNCHANGED <<started, runVars>>
           ELSE /\ BeginScrape(name)
                /\ started' = Append(started, name)
                /\ UNCHANGED <<pending, results>>
    /\ UNCHANGED <<today, store, envVars, caller, exit_status, ret, calls,
                   batch, prev, raceVars, extraVars>>

\* an exception of fetch_layoffs is swallowed and the run reported as good
FetchResult_swallows(res, name, outcome, served, now) ==
    IF outcome = "ok"
    THEN LET found == fetch_layoffs(name, served, now)
         IN  [res EXCEPT !.records_found = Len(found), !.success = (found = <<>>)]
    ELSE [res EXCEPT !.success = TRUE]

\* scrape_and_store, from fetch_layoffs to the start of the store loop
FetchResult(res, name, outcome, served, now) ==
    CASE outcome = "ok" ->
            LET found == fetch_layoffs(name, served, now)
            IN  [res EXCEPT !.records_found = Len(found),
                            !.success = (found = <<>>)]
      [] outcome = "ScrapeError" ->
            [res EXCEPT !.errors = Append(@, <<"Scraping error", name>>)]
      [] outcome = "Exception" ->
            [res EXCEPT !.errors = Append(@, <<"Unexpected error", name>>)]

Fetch ==
    /\ phase = "fetching"
    /\ \E outcome \in FetchOutcomes(cur) :
        LET served == IF cur \in Flags THEN upstream[cur] ELSE NoUpstream
            found == IF outcome = "ok" THEN fetch_layoffs(cur, served, today)
                     ELSE <<>>
        IN  /\ fetch_outcome' = outcome
            /\ layoffs' = found
            /\ result' = FetchResult(result, cur, outcome, served, today)
            /\ phase' = IF found = <<>> THEN "returning" ELSE "storing"
    /\ UNCHANGED <<today, store, faults, envVars, caller, allVars, cur, idx,
                   added_count, attempts, rows_before, ret, calls, batch, prev,
                   raceVars, extraVars>>

\* the errors list after one add_layoff of the store loop
StoreErrors(errors, layoff, outcome) ==
    IF outcome = "raised"
    THEN Append(errors, <<"Error storing layoff", layoff.company_name>>)
    ELSE errors

\* the store loop stops at the first record that raises
store_loop_aborts(i, outcome, n) == IF outcome = "raised" THEN n + 1 ELSE i + 1

\* `for layoff in layoffs` with the try inside the loop body: the position
\* after a turn that ended with outcome, in a list of n records
store_loop_next(i, outcome, n) == i + 1

\* every add_layoff that did not raise is counted
count_added_all(added, created) == added + 1

\* `if created: added_count += 1`
count_added(added, created) == IF created = "created" THEN added + 1 ELSE added

\* scrape_and_store: one turn of `for layoff in layoffs`
StoreOne ==
    /\ phase = "storing"
    /\ idx <= Len(layoffs)
    /\ \E fault \in FaultChoices :
        LET layoff == layoffs[idx]
            r == add_layoff(store, layoff, today, fault)
        IN  /\ store' = r.rows
            /\ faults' = IF fault THEN faults + 1 ELSE faults
            /\ added_count' = IF r.ret = "raised" THEN added_count
                              ELSE count_added(added_count, r.ret)
            /\ result' = [result EXCEPT !.errors = StoreErrors(@, layoff, r.ret)]
            /\ attempts' = Append(attempts, [rec |-> layoff, ret |-> r.ret])
            /\ idx' = store_loop_next(idx, r.ret, Len(layoffs))
    /\ UNCHANGED <<today, envVars, caller, allVars, cur, phase, fetch_outcome,
                   layoffs, rows_before, ret, calls, batch, prev, raceVars,
                   extraVars>>

\* scrape_and_store: the two assignments after the store loop
StoredResult(res, added) ==
    [res EXCEPT !.records_added = added, !.success = TRUE]

FinishStore ==
    /\ phase = "storing"
    /\ idx > Len(layoffs)
    /\ result' = StoredResult(result, added_count)
    /\ phase' = "returning"
    /\ UNCHANGED <<today, store, faults, envVars, caller, allVars, cur,
                   fetch_outcome, layoffs, idx, added_count, attempts,
                   rows_before, ret, calls, batch, prev, raceVars, extraVars>>

\* scrape_and_store returns, and run_scraper hands the result to its caller
Return ==
    /\ phase = "returning"
    /\ prev' = IF result.success /\ result.errors = <<>>
               THEN [name |-> cur, day |-> today,
                     records_found |-> result.records_found]
               ELSE NoPrev
    /\ IF caller = "run_once"
       THEN /\ results' = Put(results, cur, result)
            /\ pending' = run_all_rest(pending, result)
            /\ UNCHANGED <<caller, ret>>
       ELSE /\ ret' = result
            /\ caller' = "none"
            /\ UNCHANGED <<results, pending>>
    /\ cur' = ""
    /\ phase' = "idle"
    /\ faults' = 0
    /\ fetch_outcome' = "none"
    /\ layoffs' = <<>>
    /\ idx' = 1
    /\ added_count' = 0
    /\ result' = InitResult
    /\ attempts' = <<>>
    /\ rows_before' = {}
    /\ UNCHANGED <<today, store, envVars, started, exit_status, calls, batch,
                   raceVars, extraVars>>

\* the runner exits 0 whatever the results
failed_never(rs) == FALSE

\* scripts/run_all_scrapers.py main: any(not r.get("success", False) ...)
failed(rs) == \E i \in 1..Len(rs) : ~rs[i].result.success

\* run_all_scrapers returns; the runner exits with its status
RunOnceExit ==
    /\ caller = "run_once"
    /\ phase = "idle"
    /\ pending = <<>>
    /\ exit_status' = IF failed(results) THEN 1 ELSE 0
    /\ caller' = "none"
    /\ UNCHANGED <<today, store, envVars, pending, results, started, runVars,
                   ret, calls, batch, prev, raceVars, extraVars>>

Next ==
    \/ NextDay
    \/ RunScraperCall
    \/ RunOnceCall
    \/ RunAllNext
    \/ Fetch
    \/ StoreOne
    \/ FinishStore
    \/ Return
    \/ RunOnceExit

Spec == Init /\ [][Next]_vars

\* the store used by scripts alone
StoreNext ==
    \/ NextDay
    \/ AddLayoffCall
    \/ AddLayoffsBatchCall

SpecStore == InitWith([enabled |-> Only({}), upstream |-> Serve(<<>>)])
             /\ [][StoreNext]_vars

\* ------------------------------------------ add_layoff by concurrent callers
\* Each caller has a session of its own.  A query sees committed rows.  The
\* INSERT of the flush waits while another open transaction holds a row with
\* the same unique_id, then meets the UNIQUE constraint.
pipelineVars == <<today, envVars, caller, runVars, allVars, ret, calls, batch, prev>>

\* add_layoff up to `if existing: return None`
WBegin(w) ==
    /\ wpc[w] \in {"idle", "done"}
    /\ \E inp \in DirectInputs :
        LET lc == LayoffCreate(inp.company, inp.date, inp.affected, inp.source, today)
            uid == generate_unique_id(lc.company_name, lc.layoff_date, lc.source)
        IN  /\ lc.valid
            /\ wrec' = [wrec EXCEPT ![w] = lc]
            /\ IF existing(store, uid)
               THEN /\ wpc' = [wpc EXCEPT ![w] = "done"]
                    /\ wret' = [wret EXCEPT ![w] = "None"]
                    /\ wchecked' = [wchecked EXCEPT ![w] = FALSE]
               ELSE /\ wpc' = [wpc EXCEPT ![w] = "checked"]
                    /\ wret' = [wret EXCEPT ![w] = "none"]
                    /\ wchecked' = [wchecked EXCEPT ![w] = TRUE]
    /\ UNCHANGED <<store, held, pipelineVars, extraVars>>

\* session.add and session.flush; an IntegrityError leaves through
\* get_session (rollback) and is answered with None
WFlush(w) ==
    /\ wpc[w] = "checked"
    /\ LET lc == wrec[w]
           uid == generate_unique_id(lc.company_name, lc.layoff_date, lc.source)
       IN  /\ \A o \in Workers \ {w} : held[o].unique_id # uid
           /\ IF unique_violation(store, uid)
              THEN /\ wpc' = [wpc EXCEPT ![w] = "done"]
                   /\ wret' = [wret EXCEPT ![w] = "None"]
                   /\ held' = held
              ELSE /\ wpc' = [wpc EXCEPT ![w] = "flushed"]
                   /\ held' = [held EXCEPT ![w] = LayoffModel(store, lc, uid, today)]
                   /\ wret' = wret
    /\ UNCHANGED <<store, wrec, wchecked, pipelineVars, extraVars>>

\* refresh, `return Layoff.from_create(...)`, commit on leaving get_session
WCommit(w) ==
    /\ wpc[w] = "flushed"
    /\ store' = store \cup {held[w]}
    /\ held' = [held EXCEPT ![w] = NoRow]
    /\ wpc' = [wpc EXCEPT ![w] = "done"]
    /\ wret' = [wret EXCEPT ![w] = "created"]
    /\ UNCHANGED <<wrec, wchecked, pipelineVars, extraVars>>

RaceNext == \E w \in Workers : WBegin(w) \/ WFlush(w) \/ WCommit(w)

SpecRace == InitWith([enabled |-> Only({}), upstream |-> Serve(<<>>)])
            /\ [][RaceNext]_vars

\* scripts and pipeline on one store
AllWorlds ==
    {w \in Worlds :
        \/ \A f \in Flags : ~w.enabled[f]
        \/ w.upstream["layoffs_fyi"] = <<<<RowAc1, RowAC1>>, <<>>>>}

SpecAll == (\E world \in AllWorlds : InitWith(world))
           /\ [][Next \/ AddLayoffCall \/ AddLayoffsBatchCall]_vars

\* ------------------------------------------------- BaseScraper._fetch_page
\* values of MAX_RETRIES a deployment may set in its environment
RetrySettings == -1..MAX_RETRIES

\* how one session.get followed by raise_for_status can end: a response, an
\* HTTPError (503, 404), another RequestException (ConnectionError,
\* InvalidURL)
Outcomes == {"ok", "HTTP503", "HTTP404", "ConnectionError", "InvalidURL"}

notNetVars == <<store, pipelineVars, raceVars, modelVars, fetched, http,
                jobVars, textVars, upsertVars>>

RECURSIVE Pow2(_)
Pow2(n) == IF n = 0 THEN 1 ELSE 2 * Pow2(n - 1)

\* the same sleep before every retry
backoff_flat(attempt) == retry_delay

\* retry_delay * (2 ** attempt)
backoff(attempt) == retry_delay * Pow2(attempt)

\* no attempt is taken for the last one
is_last_attempt_never(attempt, mr) == FALSE

\* `attempt == max_retries - 1`
is_last_attempt(attempt, mr) == attempt = mr - 1

\* time passes
Tick ==
    /\ clock < MaxClock
    /\ clock' = clock + 1
    /\ UNCHANGED <<max_retries, last_reset, num_calls, fpc, fattempt, fwake,
                   flog, fret, last_start, gap, notNetVars>>

\* a thread calls _fetch_page and enters the wrapper of sleep_and_retry
FetchPageCall(t) ==
    /\ fpc[t] \in {"idle", "done"}
    /\ fpc' = [fpc EXCEPT ![t] = "limits"]
    /\ fattempt' = [fattempt EXCEPT ![t] = 0]
    /\ fwake' = [fwake EXCEPT ![t] = clock]
    /\ flog' = [flog EXCEPT ![t] = <<>>]
    /\ fret' = [fret EXCEPT ![t] = <<"none">>]
    /\ UNCHANGED <<clock, max_retries, last_reset, num_calls, last_start, gap,
                   notNetVars>>

\* the wrapper of @limits(calls=1, period=REQUEST_DELAY_SECONDS), run under
\* its lock: an elapsed period is restarted at the time of this call, the
\* call is counted, and a call over the limit raises RateLimitException,
\* which sleep_and_retry answers with time.sleep(period_remaining) and a new
\* try.  A call within the limit enters the body of _fetch_page, whose loop
\* over range(max_retries) is empty for max_retries <= 0.
Limits(t) ==
    /\ fpc[t] = "limits"
    /\ clock >= fwake[t]
    /\ LET period_remaining == REQUEST_DELAY_SECONDS - (clock - last_reset)
           expired == period_remaining <= 0
           counted == (IF expired THEN 0 ELSE num_calls) + 1
       IN  /\ last_reset' = IF expired THEN clock ELSE last_reset
           /\ num_calls' = counted
           /\ IF counted > 1
              THEN /\ fwake' = [fwake EXCEPT ![t] = clock + period_remaining]
                   /\ UNCHANGED <<fpc, fret>>
              ELSE IF max_retries <= 0
              THEN /\ fpc' = [fpc EXCEPT ![t] = "done"]
                   /\ fret' = [fret EXCEPT ![t] = <<"None">>]
                   /\ fwake' = fwake
              ELSE /\ fpc' = [fpc EXCEPT ![t] = "attempt"]
                   /\ UNCHANGED <<fwake, fret>>
    /\ UNCHANGED <<clock, max_retries, fattempt, flog, last_start, gap, notNetVars>>

\* one turn of `for attempt in range(max_retries)`: the request, and what
\* follows its outcome (return, raise ScrapeError, or sleep and go on).  The
\* request itself takes no time here; the time it takes adds to the waits.
Attempt(t) ==
    /\ fpc[t] = "attempt"
    /\ clock >= fwake[t]
    /\ \E outcome \in Outcomes :
        LET attempt == fattempt[t]
            raises == outcome # "ok" /\ is_last_attempt(attempt, max_retries)
            sleeps == outcome # "ok" /\ ~raises /\ attempt < max_retries - 1
            wait == IF sleeps THEN backoff(attempt) ELSE 0
            more == attempt + 1 < max_retries
        IN  /\ flog' = [flog EXCEPT ![t] =
                        Append(@, [outcome |-> outcome, at |-> clock, wait |-> wait])]
            /\ last_start' = clock
            /\ gap' = IF last_start = None THEN None ELSE clock - last_start
            /\ fwake' = [fwake EXCEPT ![t] = clock + wait]
            /\ IF outcome = "ok"
               THEN /\ fpc' = [fpc EXCEPT ![t] = "done"]
                    /\ fret' = [fret EXCEPT ![t] = <<"response">>]
                    /\ fattempt' = fattempt
               ELSE IF raises
               THEN /\ fpc' = [fpc EXCEPT ![t] = "done"]
                    /\ fret' = [fret EXCEPT ![t] = <<"ScrapeError", outcome>>]
                    /\ fattempt' = fattempt
               ELSE IF more
               THEN /\ fattempt' = [fattempt EXCEPT ![t] = attempt + 1]
                    /\ UNCHANGED <<fpc, fret>>
               ELSE \* the loop ends and the function returns None
                    /\ fpc' = [fpc EXCEPT ![t] = "done"]
                    /\ fret' = [fret EXCEPT ![t] = <<"None">>]
                    /\ fattempt' = fattempt
    /\ UNCHANGED <<clock, max_retries, last_reset, num_calls, notNetVars>>

FetchNext ==
    \/ Tick
    \/ \E t \in Fetchers : FetchPageCall(t) \/ Limits(t) \/ Attempt(t)

InitFetch ==
    /\ InitCore([enabled |-> Only({}), upstream |-> Serve(<<>>)])
    /\ \E mr \in RetrySettings : InitNet(mr)
    /\ InitModel(NoArgs)
    /\ fetched = NoFetch
    /\ http = NoHttp
    /\ InitText(<<>>)
    /\ InitUpsert(<<>>, <<>>, {})
    /\ InitJobs

SpecFetch == InitFetch /\ [][FetchNext]_vars

\* ------------------------------------------- the record model on its own
\* strings a caller may hand over as company_name and as source
NameChars == {"a", "A", " "}
NameInputs == UNION {[1..k -> NameChars] : k \in 0..MaxLen}
SourceInputs == {<<"s">>, <<"S">>, <<" ", "s">>}

ModelInputs ==
    [name1 : NameInputs, name2 : NameInputs, date : 1..MaxDay,
     source1 : SourceInputs, source2 : SourceInputs]

notModelVars == <<pipelineVars, raceVars, netVars, fetched, http, jobVars,
                  textVars, upsertVars>>

\* Layoff.generate_unique_id called on its own, for two sets of inputs
GenerateUniqueIdCall ==
    /\ keys' = <<generate_unique_id(args.name1, args.date, args.source1),
                 generate_unique_id(args.name2, args.date, args.source2)>>
    /\ UNCHANGED <<store, args, built, notModelVars>>

\* LayoffCreate(company_name=..., layoff_date=..., source=...)
LayoffCreateCall ==
    /\ built' = <<LayoffCreate(args.name1, args.date, None, args.source1, today)>>
    /\ UNCHANGED <<store, args, keys, notModelVars>>

\* the record built is handed to add_layoff
StoreBuilt ==
    /\ built # <<>>
    /\ built[1].valid
    /\ store' = add_layoff(store, built[1], today, FALSE).rows
    /\ UNCHANGED <<args, keys, built, notModelVars>>

ModelNext ==
    \/ GenerateUniqueIdCall
    \/ LayoffCreateCall
    \/ StoreBuilt

InitRecordModel ==
    /\ InitCore([enabled |-> Only({}), upstream |-> Serve(<<>>)])
    /\ InitNet(MAX_RETRIES)
    /\ \E a \in ModelInputs : InitModel(a)
    /\ fetched = NoFetch
    /\ http = NoHttp
    /\ InitText(<<>>)
    /\ InitUpsert(<<>>, <<>>, {})
    /\ InitJobs

SpecModel == InitRecordModel /\ [][ModelNext]_vars

\* ------------------------------------------------ fetch_layoffs on its own
\* names and dates a source may serve: a name, the name in other letter case
\* and with a leading space, another name, a blank name and no name; a past
\* day and a day after the day of the fetch
AdapterNames == {<<"A", "c">>, <<"A", "C">>, <<" ", "A", "c">>, <<"B", "b">>,
                 <<" ">>, <<>>}
AdapterRows == {Row(n, d, 5) : n \in AdapterNames, d \in {1, FirstDay + 1}}
AdapterTables == UNION {[1..k -> AdapterRows] : k \in 0..MaxRows}

\* every source switched on, each serving the same pair of tables
AdapterWorlds ==
    {[enabled |-> Only(Flags), upstream |-> [f \in Flags |-> <<t, u>>]] :
        t \in AdapterTables, u \in {<<>>, <<RowAc1>>}}

\* fetch_layoffs of a registered adapter is called
FetchLayoffsCall ==
    /\ \E name \in Registered :
        LET served == IF name \in Flags THEN upstream[name] ELSE NoUpstream
        IN  fetched' = [name |-> name, day |-> today, served |-> served,
                        out |-> fetch_layoffs(name, served, today)]
    /\ UNCHANGED <<store, pipelineVars, raceVars, netVars, modelVars, http,
                   jobVars, textVars, upsertVars>>


InitAdapters ==
    /\ \E world \in AdapterWorlds : InitCore(world)
    /\ InitNet(MAX_RETRIES)
    /\ InitModel(NoArgs)
    /\ fetched = NoFetch
    /\ http = NoHttp
    /\ InitText(<<>>)
    /\ InitUpsert(<<>>, <<>>, {})
    /\ InitJobs

SpecAdapters == InitAdapters /\ [][FetchLayoffsCall]_vars

\* ------------------------------------- the requests of the remote adapters
\* the outbound requests of one fetch_layoffs call and whether it raises
\* ScrapeError.  outs: how the request for each URL ends.  OfficePulse calls
\* requests.get once; Peerlist calls page.goto once per year page and goes
\* on to the next page when it fails; the Airtable adapters build one
\* AirtableScraper per view, which either raises (lib_raises) or reports a
\* status other than 'success' with no rows.  None of them calls _fetch_page.
fetch_raw(name, outs, lib_raises) ==
    CASE name = "officepulse" ->
            [name |-> name, requests |-> <<outs[1]>>, raised |-> outs[1] # "ok"]
      [] name = "peerlist" ->
            [name |-> name, requests |-> outs, raised |-> FALSE]
      [] name = "layoffstracker" ->
            [name |-> name, requests |-> <<outs[1]>>,
             raised |-> outs[1] # "ok" /\ lib_raises]
      [] name = "layoffs_fyi" ->
            IF outs[1] # "ok" /\ lib_raises
            THEN [name |-> name, requests |-> <<outs[1]>>, raised |-> TRUE]
            ELSE [name |-> name, requests |-> outs,
                  raised |-> outs[2] # "ok" /\ lib_raises]

\* fetch_layoffs of a remote adapter is called and a request of it may fail
FetchRawCall ==
    /\ \E name \in Registered \cap Flags, o1, o2 \in Outcomes,
          lib_raises \in BOOLEAN :
        http' = fetch_raw(name, <<o1, o2>>, lib_raises)
    /\ UNCHANGED <<store, pipelineVars, raceVars, netVars, modelVars, fetched,
                   jobVars, textVars, upsertVars>>

InitRequests ==
    /\ \E on \in SUBSET Flags :
          InitCore([enabled |-> Only(on), upstream |-> Serve(<<>>)])
    /\ \E mr \in 1..MAX_RETRIES : InitNet(mr)
    /\ InitModel(NoArgs)
    /\ fetched = NoFetch
    /\ http = NoHttp
    /\ InitText(<<>>)
    /\ InitUpsert(<<>>, <<>>, {})
    /\ InitJobs

SpecRequests == InitRequests /\ [][FetchRawCall]_vars

\* ------------------------------------------------ scheduled mode: the jobs
\* the adapters schedule_jobs has an add_job for, in the order of its ifs
ScheduledOrder == <<"layoffs_fyi", "layoffstracker", "peerlist", "officepulse">>

\* a job as add_job builds it: its id ('<adapter>_scheduled', kept as the
\* adapter name it passes to run_scraper) and the schedule_jobs call it is of
Job(name, call) == [id |-> name, call |-> call]

\* jobs are stacked whatever their id
real_add_job_stacks(jobs, job, replace_existing) == Append(jobs, job)

\* the scheduler's _real_add_job on the job store: a job whose id is stored
\* already is updated in place when replace_existing is set
real_add_job(jobs, job, replace_existing) ==
    IF \E i \in 1..Len(jobs) : jobs[i].id = job.id
    THEN IF replace_existing
         THEN [i \in 1..Len(jobs) |-> IF jobs[i].id = job.id THEN job ELSE jobs[i]]
         ELSE jobs
    ELSE Append(jobs, job)

RECURSIVE real_add_jobs(_, _)
real_add_jobs(jobs, new) ==
    IF new = <<>> THEN jobs
    ELSE real_add_jobs(real_add_job(jobs, Head(new), TRUE), Tail(new))

\* the add_job calls of one schedule_jobs call, each with replace_existing=True
jobs_added(en, call) ==
    LET on == SelectSeq(ScheduledOrder, LAMBDA n : en[n])
    IN  [i \in 1..Len(on) |-> Job(on[i], call)]

notJobVars == <<store, pipelineVars, raceVars, netVars, modelVars, fetched,
                http, textVars, upsertVars>>

\* schedule_jobs: add_job keeps the job in _pending_jobs while the scheduler
\* is stopped and adds it to the job store when it runs
ScheduleJobsCall ==
    /\ schedule_calls < MaxScheduleCalls
    /\ schedule_calls' = schedule_calls + 1
    /\ LET new == jobs_added(enabled, schedule_calls + 1)
       IN  IF sched_state = "stopped"
           THEN /\ pending_jobs' = pending_jobs \o new
                /\ jobstore' = jobstore
           ELSE /\ jobstore' = real_add_jobs(jobstore, new)
                /\ pending_jobs' = pending_jobs
    /\ UNCHANGED <<sched_state, triggered, instances, skipped, notJobVars>>

\* LayoffScheduler.start -> scheduler.start(): the pending jobs are added to
\* the job store
StartScheduler ==
    /\ sched_state = "stopped"
    /\ sched_state' = "running"
    /\ jobstore' = real_add_jobs(jobstore, pending_jobs)
    /\ pending_jobs' = <<>>
    /\ UNCHANGED <<triggered, instances, skipped, schedule_calls, notJobVars>>

\* add_job is called without max_instances: the job default applies
max_instances == 1

\* the executor starts a run whatever is running
instances_reached_never(inst, id) == FALSE

\* the executor's submit_job: MaxInstancesReachedError when the job id has
\* max_instances runs in progress
instances_reached(inst, id) == inst[id] >= max_instances

\* the scheduler's loop over the due jobs: a job the executor refuses is
\* skipped (logged), the others are handed to the pool
RECURSIVE submit_jobs(_, _)
submit_jobs(fired, inst) ==
    IF fired = <<>> THEN [instances |-> inst, submitted |-> <<>>, skipped |-> <<>>]
    ELSE LET id == Head(fired).id
         IN  IF instances_reached(inst, id)
             THEN LET r == submit_jobs(Tail(fired), inst)
                  IN  [r EXCEPT !.skipped = <<id>> \o @]
             ELSE LET r == submit_jobs(Tail(fired),
                                       [inst EXCEPT ![id] = @ + 1])
                  IN  [r EXCEPT !.submitted = <<id>> \o @]

\* the interval triggers of the adapters in due fire: every stored job of
\* theirs is submitted, i.e. run_scraper is called with its adapter name on
\* a thread of the pool
IntervalTick ==
    /\ sched_state = "running"
    /\ \E due \in SUBSET Flags :
        LET fired == SelectSeq(jobstore, LAMBDA j : j.id \in due)
            r == submit_jobs(fired, instances)
        IN  /\ triggered' = r.submitted
            /\ skipped' = r.skipped
            /\ instances' = r.instances
    /\ UNCHANGED <<sched_state, pending_jobs, jobstore, schedule_calls, notJobVars>>

\* run_scraper returns on its pool thread: the executor counts the run out
RunJobDone ==
    /\ \E id \in Flags :
        /\ instances[id] > 0
        /\ instances' = [instances EXCEPT ![id] = @ - 1]
    /\ UNCHANGED <<sched_state, pending_jobs, jobstore, triggered, skipped,
                   schedule_calls, notJobVars>>

JobsNext ==
    \/ ScheduleJobsCall
    \/ StartScheduler
    \/ IntervalTick
    \/ RunJobDone

InitScheduler ==
    /\ \E on \in SUBSET Flags :
          InitCore([enabled |-> Only(on), upstream |-> Serve(<<>>)])
    /\ InitNet(MAX_RETRIES)
    /\ InitModel(NoArgs)
    /\ fetched = NoFetch
    /\ http = NoHttp
    /\ InitText(<<>>)
    /\ InitUpsert(<<>>, <<>>, {})
    /\ InitJobs

SpecJobs == InitScheduler /\ [][JobsNext]_vars

\* ------------------------------------------- extraction of employee counts
DigitChars == <<"0", "1", "7">>
DigitValues == <<0, 1, 7>>

\* str.isdigit on one character, \\d of re
isdigit(c) == \E i \in 1..Len(DigitChars) : DigitChars[i] = c

DigitValue(c) == DigitValues[CHOOSE i \in 1..Len(DigitChars) : DigitChars[i] = c]

\* int() of a string of digits
RECURSIVE int(_)
int(digits) ==
    IF digits = <<>> THEN 0
    ELSE 10 * int(SubSeq(digits, 1, Len(digits) - 1))
         + DigitValue(digits[Len(digits)])

\* str.replace(c, "")
replace(s, c) == SelectSeq(s, LAMBDA x : x # c)

\* re.search(r'(\d+)', s).group(1), or the empty string for no match
first_digit_run(s) ==
    IF \A k \in 1..Len(s) : ~isdigit(s[k]) THEN <<>>
    ELSE LET i == CHOOSE k \in 1..Len(s) :
                      isdigit(s[k]) /\ \A h \in 1..(k - 1) : ~isdigit(s[h])
             j == CHOOSE k \in i..Len(s) :
                      /\ \A h \in i..k : isdigit(s[h])
                      /\ (k = Len(s) \/ ~isdigit(s[k + 1]))
         IN  SubSeq(s, i, j)

\* BaseScraper._parse_employees_affected: every digit of the text is kept
parse_employees_affected(cs) ==
    IF cs = <<>> THEN None
    ELSE LET cleaned == replace(replace(replace(cs, ","), " "), "+")
             digits == SelectSeq(cleaned, isdigit)
         IN  IF digits # <<>> THEN int(digits) ELSE None

\* PeerlistScraper._extract_table_data: employees of a row
peerlist_employees(employees_str) ==
    IF employees_str = <<>> THEN None
    ELSE LET m == first_digit_run(replace(employees_str, ","))
         IN  IF m # <<>> THEN int(m) ELSE None

\* 'Silent Firing' and 'Silent firing', abbreviated
SILENT_FIRING == {<<"S", "F">>, <<"S", "f">>}

\* OfficePulseScraper.fetch_layoffs: employees of a record
officepulse_employees(employees_str) ==
    IF employees_str # <<>> /\ employees_str \notin SILENT_FIRING
    THEN LET m == first_digit_run(replace(employees_str, ","))
         IN  IF m # <<>> THEN int(m) ELSE None
    ELSE None

\* texts a source may carry in its employee-count cell
TextChars == {"0", "1", "7", ",", " ", "(", "S", "F"}
TextInputs == UNION {[1..k -> TextChars] : k \in 0..MaxText}

notTextVars == <<store, pipelineVars, raceVars, netVars, modelVars, fetched,
                 http, jobVars, upsertVars>>

ParseEmployeesAffectedCall ==
    /\ employees' = [employees EXCEPT !.base = parse_employees_affected(count_str)]
    /\ UNCHANGED <<count_str, notTextVars>>

PeerlistEmployeesCall ==
    /\ employees' = [employees EXCEPT !.peerlist = peerlist_employees(count_str)]
    /\ UNCHANGED <<count_str, notTextVars>>

OfficePulseEmployeesCall ==
    /\ employees' = [employees EXCEPT
                        !.officepulse = officepulse_employees(count_str)]
    /\ UNCHANGED <<count_str, notTextVars>>

TextNext ==
    \/ ParseEmployeesAffectedCall
    \/ PeerlistEmployeesCall
    \/ OfficePulseEmployeesCall

InitExtraction ==
    /\ InitCore([enabled |-> Only({}), upstream |-> Serve(<<>>)])
    /\ InitNet(MAX_RETRIES)
    /\ InitModel(NoArgs)
    /\ fetched = NoFetch
    /\ http = NoHttp
    /\ \E s \in TextInputs : InitText(s)
    /\ InitUpsert(<<>>, <<>>, {})
    /\ InitJobs

SpecText == InitExtraction /\ [][TextNext]_vars

\* -------------------------------------------- add_layoff in two orders
\* the orders in which a set of records can be handed to add_layoff
Orderings(S) ==
    {q \in [1..Cardinality(S) -> S] : \A i, j \in 1..Cardinality(S) :
                                          i # j => q[i] # q[j]}

\* stores the records may meet: the empty one and one that holds a row with
\* the key of InputAc and InputAC, stored the day before
StartStores ==
    {{}, add_layoff({}, LayoffCreate(InputAC.company, InputAC.date, 3,
                                     InputAC.source, FirstDay - 1),
                    FirstDay - 1, FALSE).rows}

notUpsertVars == <<store, pipelineVars, raceVars, netVars, modelVars, fetched,
                   http, jobVars, textVars>>

\* add_layoff is called with the next record of order k on copy k
ApplyNext(k) ==
    /\ applied[k] < Len(orders[k])
    /\ LET inp == orders[k][applied[k] + 1]
           lc == LayoffCreate(inp.company, inp.date, inp.affected, inp.source, today)
       IN  /\ lc.valid
           /\ copies' = [copies EXCEPT ![k] = add_layoff(@, lc, today, FALSE).rows]
    /\ applied' = [applied EXCEPT ![k] = @ + 1]
    /\ UNCHANGED <<orders, notUpsertVars>>

UpsertNext == \E k \in {1, 2} : ApplyNext(k)

InitOrders ==
    /\ InitCore([enabled |-> Only({}), upstream |-> Serve(<<>>)])
    /\ InitNet(MAX_RETRIES)
    /\ InitModel(NoArgs)
    /\ fetched = NoFetch
    /\ http = NoHttp
    /\ InitText(<<>>)
    /\ \E S \in SUBSET DirectInputs, rows \in StartStores :
          \E first, second \in Orderings(S) : InitUpsert(first, second, rows)
    /\ InitJobs

SpecUpsert == InitOrders /\ [][UpsertNext]_vars

\* ------------------------------------------------------------------ claims
KeyOf(lc) == generate_unique_id(lc.company_name, lc.layoff_date, lc.source)
RowsWithKey(uid) == {r \in store : r.unique_id = uid}

BothPassedCheck ==
    /\ \A w \in Workers : wpc[w] = "done" /\ wchecked[w]
    /\ KeyOf(wrec[1]) = KeyOf(wrec[2])

C3_RerunAddsNothing ==
    (/\ phase = "returning"
     /\ prev.name = cur
     /\ fetch_outcome = "ok"
     /\ result.errors = <<>>)
    => /\ result.records_found = prev.records_found
       /\ result.records_added = 0

\* C4: every stored row stays in the store, unchanged in every field, across
\* every step of add_layoff, add_layoffs_batch, scrape_and_store, run_scraper
\* and run_all_scrapers; a record whose key is stored does not replace it.
C4_StoredRowsImmutable == [][\A r \in store : r \in store']_vars

C4_Witness ==
    /\ Len(calls) = 2
    /\ calls[1].ret = "created"
    /\ calls[2].ret = "None"
    /\ KeyOf(calls[1].rec) = KeyOf(calls[2].rec)
    /\ calls[1].rec.employees_affected # calls[2].rec.employees_affected
    /\ \E r \in store :
        /\ r.unique_id = KeyOf(calls[2].rec)
        /\ r.employees_affected = calls[1].rec.employees_affected
        /\ r.scraped_at < today

\* C5: run_scraper never leaves by an exception; for a name missing from the
\* registry it returns success = false, enters no adapter and writes nothing.
IsNotFound(res) == res.error # <<>> /\ res.error[1] = "not found"

C5_RunScraperAlwaysReturns ==
    /\ [](/\ ret # Propagated
          /\ (cur # "" => cur \in Registered)
          /\ (IsNotFound(ret) => ~ret.success /\ ret.error[2] \notin Registered))
    /\ [][IsNotFound(ret') /\ ret' # ret
            => store' = store /\ UNCHANGED runVars]_vars

C5_Witness ==
    /\ ret = NotFoundResult("layoffs_fyi")
    /\ store # {}
    /\ prev.name = "comprehensive"

\* C6: run_all_scrapers enters the registered adapters one at a time in
\* registration order, each exactly once, and returns one result per
\* registered adapter whatever the earlier adapters' results were.
ResultNames(rs) == [i \in 1..Len(rs) |-> rs[i].name]

C6_RunAllInRegistrationOrder ==
    /\ caller = "run_once"
       => /\ started = SubSeq(scrapers, 1, Len(started))
          /\ ResultNames(results) = SubSeq(scrapers, 1, Len(results))
          /\ pending = SubSeq(scrapers, Len(results) + 1, Len(scrapers))
          /\ Len(started) - Len(results) = (IF phase = "idle" THEN 0 ELSE 1)
    /\ exit_status # None
       => /\ started = scrapers
          /\ ResultNames(results) = scrapers

C6_Witness ==
    /\ exit_status # None
    /\ Len(results) = 3
    /\ ~results[2].result.success
    /\ results[3].result.success
    /\ results[3].result.records_added = 1

C8_FetchFailureResult ==
    (phase = "returning" /\ fetch_outcome \in {"ScrapeError", "Exception"})
    => /\ ~result.success
       /\ result.errors # <<>>
       /\ result.records_found = 0
       /\ result.records_added = 0
       /\ attempts = <<>>

C8_Witness ==
    /\ phase = "returning"
    /\ fetch_outcome = "Exception"
    /\ ~result.success
    /\ store # {}

\* C9: the store loop calls add_layoff for every fetched record in the order
\* fetched, whatever the earlier calls did, and every call that raised has
\* its entry in errors.
Raised(as) == {i \in 1..Len(as) : as[i].ret = "raised"}

C9_StoreLoopIsolation ==
    /\ phase = "storing"
       => /\ idx = Len(attempts) + 1
          /\ \A i \in 1..Len(attempts) : attempts[i].rec = layoffs[i]
    /\ (phase = "returning" /\ fetch_outcome = "ok")
       => /\ Len(attempts) = Len(layoffs)
          /\ \A i \in 1..Len(attempts) : attempts[i].rec = layoffs[i]
          /\ Len(result.errors) = Cardinality(Raised(attempts))

C9_Witness ==
    /\ phase = "returning"
    /\ Len(attempts) >= 2
    /\ attempts[1].ret = "raised"
    /\ attempts[2].ret = "created"
    /\ Len(result.errors) = 1

\* C10: a run in which add_layoff raised for some record returns success =
\* false with the error recorded in errors.
C10_StoreErrorFailsRun ==
    (phase = "returning" /\ Raised(attempts) # {})
    => /\ ~result.success
       /\ result.errors # <<>>

\* C11: a _fetch_page call makes at most MAX_RETRIES requests, makes none
\* after a successful one and returns its response; when MAX_RETRIES
\* requests were made and all failed it raises ScrapeError carrying the last
\* error.
C11_RetryBound ==
    \A t \in Fetchers :
        LET log == flog[t]
            n == Len(log)
        IN  /\ n <= (IF max_retries > 0 THEN max_retries ELSE 0)
            /\ \A i \in 1..(n - 1) : log[i].outcome # "ok"
            /\ (n > 0 /\ log[n].outcome = "ok")
               => (fpc[t] = "done" /\ fret[t] = <<"response">>)
            /\ fret[t] = <<"response">> => (n > 0 /\ log[n].outcome = "ok")
            /\ (n >= 1 /\ n = max_retries /\ log[n].outcome # "ok")
               => (fpc[t] = "done" /\ fret[t] = <<"ScrapeError", log[n].outcome>>)
            /\ fret[t][1] = "ScrapeError" => n = max_retries

C11_Witness ==
    /\ max_retries = 3
    /\ \E t \in Fetchers :
        /\ Len(flog[t]) = 3
        /\ flog[t][1].outcome = "HTTP503"
        /\ flog[t][2].outcome = "ConnectionError"
        /\ flog[t][3].outcome = "ok"
        /\ fret[t] = <<"response">>

\* C12: after failed request number i of a call (counted from 1) that is not
\* the last one allowed, _fetch_page sleeps retry_delay * 2^(i-1) seconds
\* before the next request; after the last allowed request it does not sleep.
C12_ExponentialBackoff ==
    \A t \in Fetchers :
        \A i \in 1..Len(flog[t]) :
            LET e == flog[t][i]
                bad == e.outcome # "ok"
                final == i = max_retries
            IN  /\ (bad /\ ~final) => e.wait = retry_delay * (2 ^ (i - 1))
                /\ (bad /\ ~final /\ i < Len(flog[t]))
                   => flog[t][i + 1].at - e.at >= e.wait
                /\ (bad /\ ~final /\ i = Len(flog[t]))
                   => (fpc[t] = "attempt" /\ fwake[t] = e.at + e.wait)
                /\ (bad /\ final) => (e.wait = 0 /\ fpc[t] = "done")
                /\ ~bad => e.wait = 0

C12_Witness ==
    /\ max_retries = 3
    /\ \E t \in Fetchers :
        /\ Len(flog[t]) = 3
        /\ flog[t][1].wait = 2
        /\ flog[t][2].wait = 4
        /\ flog[t][2].at = flog[t][1].at + 2
        /\ flog[t][3].at = flog[t][2].at + 4
        /\ flog[t][3].wait = 0
        /\ fret[t] = <<"ScrapeError", "HTTP503">>

\* C13: when the first request of a call ends with a malformed-request error
\* or an HTTP 4xx status other than rate-limit, no other request and no
\* sleep follow it and the call has failed.
Permanent == {"HTTP404", "InvalidURL"}

C13_PermanentErrorsFailFast ==
    \A t \in Fetchers :
        (flog[t] # <<>> /\ flog[t][1].outcome \in Permanent)
        => /\ Len(flog[t]) = 1
           /\ flog[t][1].wait = 0
           /\ fret[t][1] = "ScrapeError"

\* C14: two consecutive outbound requests of _fetch_page, of one caller or
\* of two, start at least REQUEST_DELAY_SECONDS apart.
C14_RequestsSpaced == gap # None => gap >= REQUEST_DELAY_SECONDS

\* C15: generate_unique_id gives one key for inputs that differ only in
\* letter case and in surrounding whitespace.
SameModuloCaseAndSpace(a, b) == Lower(Strip(a)) = Lower(Strip(b))

C15_KeyIgnoresCaseAndSpace ==
    (/\ keys # <<>>
     /\ SameModuloCaseAndSpace(args.name1, args.name2)
     /\ SameModuloCaseAndSpace(args.source1, args.source2))
    => keys[1] = keys[2]

\* C16: LayoffCreate fails for a layoff_date after today and passes for
\* today or an earlier day (name and source being non-empty); no stored row
\* has a layoff_date after the day it was inserted.
C16_FutureDateRejected ==
    /\ built # <<>>
       => /\ args.date > today => ~built[1].valid
          /\ (args.date <= today /\ args.name1 # <<>>) => built[1].valid
    /\ \A r \in store : r.layoff_date <= r.scraped_at

C16_Witness ==
    /\ built # <<>>
    /\ built[1].valid
    /\ args.date = today
    /\ \E r \in store : r.layoff_date = r.scraped_at

\* C17: a record whose company_name is empty after trimming is rejected by
\* LayoffCreate, and no stored row has an empty company_name.
C17_EmptyNameRejected ==
    /\ (built # <<>> /\ Strip(args.name1) = <<>>) => ~built[1].valid
    /\ \A r \in store : r.company_name # <<>>

\* C18: the list returned by one fetch_layoffs call holds no two records
\* with the same company_name.
C18_NoRepeatedNameInFetch ==
    \A i, j \in 1..Len(fetched.out) :
        i < j => fetched.out[i].company_name # fetched.out[j].company_name

\* C19: when a source serves one table of N rows with distinct well-formed
\* names of which exactly one row fails validation (its date is in the
\* future), the adapter returns N - 1 records.
MalformedRows(rows, now) ==
    {i \in 1..Len(rows) : ~layoff_date_not_future(rows[i].date, now)}

DistinctWellFormedNames(rows) ==
    /\ \A i \in 1..Len(rows) : Len(Strip(rows[i].company)) > 1
    /\ \A i, j \in 1..Len(rows) :
        i < j => normalize_company_name(rows[i].company)
                 # normalize_company_name(rows[j].company)

C19_RowIsolation ==
    (/\ fetched.name \in Flags
     /\ fetched.served[2] = <<>>
     /\ DistinctWellFormedNames(fetched.served[1])
     /\ Cardinality(MalformedRows(fetched.served[1], fetched.day)) = 1)
    => Len(fetched.out) = Len(fetched.served[1]) - 1

ScheduledNames ==
    {pending_jobs[i].id : i \in 1..Len(pending_jobs)}
    \cup {jobstore[i].id : i \in 1..Len(jobstore)}

C25_JobsCoverRegistry == schedule_calls > 0 => ScheduledNames = Registered

\* C22: each extraction of an employee count returns the value of the first
\* maximal run of digits of the text with its commas removed, and None for a
\* text without digits.
RECURSIVE Pow10(_)
Pow10(n) == IF n = 0 THEN 1 ELSE 10 * Pow10(n - 1)

RECURSIVE DecimalFrom(_, _)
DecimalFrom(s, k) ==
    IF k > Len(s) THEN 0
    ELSE DigitValue(s[k]) * Pow10(Len(s) - k) + DecimalFrom(s, k + 1)

IsFirstRunValue(s, v) ==
    \E i, j \in 1..Len(s) :
        /\ i <= j
        /\ \A k \in 1..(i - 1) : ~isdigit(s[k])
        /\ \A k \in i..j : isdigit(s[k])
        /\ (j = Len(s) \/ ~isdigit(s[j + 1]))
        /\ v = DecimalFrom(SubSeq(s, i, j), 1)

ExtractionRight(v) ==
    LET t == SelectSeq(count_str, LAMBDA c : c # ",")
    IN  v # NotRun
        => IF \E k \in 1..Len(t) : isdigit(t[k])
           THEN IsFirstRunValue(t, v)
           ELSE v = None

C22_FirstDigitRun ==
    /\ ExtractionRight(employees.base)
    /\ ExtractionRight(employees.peerlist)
    /\ ExtractionRight(employees.officepulse)

\* C23: a fetch_layoffs call raises for a failed request only after the
\* request was attempted MAX_RETRIES times.
C23_FailureAfterRetries ==
    http.raised
    => /\ Len(http.requests) = max_retries
       /\ \A i \in 1..Len(http.requests) : http.requests[i] # "ok"

\* C24: a run whose source served no row at all ends with an error recorded
\* and without success.
C24_ZeroRowsIsAnError ==
    (/\ phase = "returning"
     /\ cur \in Flags
     /\ fetch_outcome = "ok"
     /\ upstream[cur] = NoUpstream)
    => /\ ~result.success
       /\ result.errors # <<>>

\* C27: when scrape_and_store returns, records_found is the number of
\* records fetch_layoffs returned, records_added lies between 0 and
\* records_found, and records_added is the number of rows the store gained
\* during the run.
C27_CountersConsistent ==
    phase = "returning"
    => /\ fetch_outcome = "ok" => result.records_found = Len(layoffs)
       /\ 0 <= result.records_added
       /\ result.records_added <= result.records_found
       /\ rows_before \subseteq store
       /\ result.records_added = Cardinality(store \ rows_before)

C27_Witness ==
    /\ phase = "returning"
    /\ rows_before # {}
    /\ result.records_found = 3
    /\ result.records_added = 1
    /\ Len(result.errors) = 1

\* C26 as claimed: whatever the order in which a set of valid records is
\* handed to add_layoff, the store ends with the same rows (scraped_at
\* ignored).
BothApplied == \A k \in {1, 2} : applied[k] = Len(orders[k])
Contents(rows) == {[r EXCEPT !.scraped_at = NoDate] : r \in rows}
StoredKeys(rows) == {r.unique_id : r \in rows}

InputKey(inp) == generate_unique_id(normalize_company_name(inp.company),
                                    inp.date, inp.source)

FirstOfKey(k, uid) ==
    LET is == {i \in 1..Len(orders[k]) : InputKey(orders[k][i]) = uid}
    IN  orders[k][CHOOSE i \in is : \A j \in is : i <= j]

KeysAgree ==
    \A i, j \in 1..Len(orders[1]) :
        InputKey(orders[1][i]) = InputKey(orders[1][j])
        => orders[1][i].affected = orders[1][j].affected

C29_BatchDuplicateSafe ==
    (batch.recs # <<>> /\ ~batch.fault)
    => LET gained == store \ batch.before
           new_keys == {KeyOf(batch.recs[i]) : i \in 1..Len(batch.recs)}
                       \ StoredKeys(batch.before)
       IN  /\ ~batch.raised
           /\ StoredKeys(gained) = new_keys
           /\ Cardinality(gained) = Cardinality(new_keys)
           /\ batch.count = Cardinality(gained)

\* C28: whatever MAX_RETRIES is set to, zero and negative values included, a
\* finished _fetch_page call has made at least one request and has either
\* returned a response or raised ScrapeError.
C28_ResponseOrScrapeError ==
    \A t \in Fetchers :
        fpc[t] = "done"
        => /\ fret[t][1] \in {"response", "ScrapeError"}
           /\ flog[t] # <<>>

\* C30: in the Airtable and OfficePulse adapters every row that passes
\* validation has a record with its company name in the list returned,
\* whatever rows were skipped before it.
ValidRow(row, now) ==
    LayoffCreate(Strip(row.company), row.date, row.affected, <<"s">>, now).valid

C30_SkippedRowKeepsValidOne ==
    (/\ fetched.name \in {"layoffs_fyi", "layoffstracker", "officepulse"}
     /\ fetched.served[2] = <<>>)
    => \A i \in 1..Len(fetched.served[1]) :
          LET row == fetched.served[1][i]
          IN  ValidRow(row, fetched.day)
              => \E j \in 1..Len(fetched.out) :
                    fetched.out[j].company_name
                    = normalize_company_name(row.company)

====
